---- MODULE Spec2Model ----
(***************************************************************************)
(* Model of Scripts/analyze-trace.py: the trace export negotiation, the    *)
(* sample extraction and unit normalisation, the hang/stutter              *)
(* classification, the statistics and the report/exit contract of main().  *)
(*                                                                         *)
(* Numbers.  Attribute values are decimal integer literals (or text that   *)
(* float() rejects).  A duration in milliseconds is kept exactly as a      *)
(* record [ms, frac]: ms whole milliseconds and frac millionths of a       *)
(* millisecond, 0 <= frac < Unit, so that v / 1_000_000 and v / 1_000 are  *)
(* exact and no value leaves TLC's integer range.                          *)
(***************************************************************************)
EXTENDS Integers, Sequences, FiniteSets, TLC

(***************************************************************************)
(* Bounds of the model.                                                    *)
(***************************************************************************)
\* longest document built freely from the node kinds of Nodes
MaxNodes == 2
\* longest document of the uniform family LongDocs
MaxLong == 11
\* longest document of the family RampDocs
MaxRamp == 21

(***************************************************************************)
(* Program constants.                                                      *)
(***************************************************************************)
\* value > 1_000_000_000: nanoseconds
NsCutoff == 1000000000
\* value > 1_000_000: microseconds
UsCutoff == 1000000
\* ns to ms
NsPerMs == 1000000
\* us to ms
UsPerMs == 1000
\* frac counts nanoseconds: the finest unit the normalisation produces
Unit == NsPerMs
\* file_size > 100
MinExportBytes == 100
\* [:10]
TopN == 10
\* sys.exit(1)
ExitFailure == 1
\* falling off main()
ExitSuccess == 0

None == "<None>"

(***************************************************************************)
(* Durations (float milliseconds).                                         *)
(***************************************************************************)
D(ms, frac) == [ms |-> ms, frac |-> frac]

Ms(n) == D(n, 0)

Zero == D(0, 0)

\* a < b
DLess(a, b) == a.ms < b.ms \/ (a.ms = b.ms /\ a.frac < b.frac)

\* a >= b
DGeq(a, b) == ~DLess(a, b)

\* a >= 0 in place of a > 0
DNonNegative(a) == ~DLess(a, Zero)

\* a > 0
DPositive(a) == DLess(Zero, a)

DAdd(a, b) ==
    LET f == a.frac + b.frac
    IN  D(a.ms + b.ms + (f \div Unit), f % Unit)

\* s / n for n > 0, truncated to the resolution of the model
DDiv(s, n) ==
    LET q == s.ms \div n
        r == s.ms % n
    IN  D(q, (r * Unit + s.frac) \div n)

\* round(x, 2): to hundredths of a millisecond, ties to the even hundredth
Round2Up(x) ==
    LET c == Unit \div 100
        q == x.frac \div c
    IN  IF q + 1 = 100 THEN D(x.ms + 1, 0) ELSE D(x.ms, (q + 1) * c)

Round2(x) ==
    LET c == Unit \div 100
        q == x.frac \div c
        r == x.frac % c
        up == (2 * r > c) \/ (2 * r = c /\ q % 2 = 1)
    IN  IF up THEN Round2Up(x) ELSE D(x.ms, q * c)

RECURSIVE DSum(_)
DSum(s) == IF s = <<>> THEN Zero ELSE DAdd(Head(s), DSum(Tail(s)))

RECURSIVE DMax(_)
DMax(s) ==
    IF Len(s) = 1 THEN s[1]
    ELSE LET m == DMax(Tail(s))
         IN  IF DLess(s[1], m) THEN m ELSE s[1]

(***************************************************************************)
(* The exported document: the nodes of the tree in root.iter() order.      *)
(* An attribute is absent, a numeric literal or text float() rejects.      *)
(***************************************************************************)
Absent == [k |-> "absent", v |-> 0, s |-> ""]

Num(n) == [k |-> "num", v |-> n, s |-> ""]

Txt(t) == [k |-> "text", v |-> 0, s |-> t]

\* for attr in ['duration', 'weight', 'self-weight', 'total-weight', 'sample-count']
DurationAttrs == <<"duration", "weight", "self-weight", "total-weight", "sample-count">>

AttrNames == {"duration", "weight", "self-weight", "total-weight", "sample-count",
              "symbol", "name", "start", "time"}

\* the row has no backtrace descendant
NoBacktrace == "<no backtrace element>"

Node(tag, given, bt) ==
    [tag |-> tag,
     attrib |-> [a \in AttrNames |-> IF a \in DOMAIN given THEN given[a] ELSE Absent],
     bt |-> bt]

Has(row, attr) == row.attrib[attr].k # "absent"

\* float(text): ok = FALSE stands for ValueError
float(a) == [ok |-> a.k = "num", v |-> a.v]

(***************************************************************************)
(* parse_time_profile: the walk over the document.                         *)
(***************************************************************************)
\* Normalize with >= in place of > at the two cutoffs
NormalizeInclusive(value) ==
    IF value >= NsCutoff THEN D(value \div NsPerMs, value % NsPerMs)
    ELSE IF value >= UsCutoff THEN D(value \div UsPerMs, (value % UsPerMs) * (Unit \div UsPerMs))
    ELSE Ms(value)

\* Normalize reading every value above 1_000_000 as nanoseconds
NormalizeNsAboveMillion(value) ==
    IF value > UsCutoff THEN D(value \div NsPerMs, value % NsPerMs)
    ELSE Ms(value)

\* the heuristic of lines 147-152 on a parsed value
Normalize(value) ==
    IF value > NsCutoff THEN D(value \div NsPerMs, value % NsPerMs)
    ELSE IF value > UsCutoff THEN D(value \div UsPerMs, (value % UsPerMs) * (Unit \div UsPerMs))
    ELSE Ms(value)

\* the inner loop over the attribute names, from the i-th name on:
\* found = FALSE stands for duration = None
RECURSIVE ProbeFrom(_, _)
ProbeFrom(row, i) ==
    IF i > Len(DurationAttrs) THEN [found |-> FALSE, duration |-> Zero]
    ELSE IF Has(row, DurationAttrs[i])
         THEN LET f == float(row.attrib[DurationAttrs[i]])
              IN  IF f.ok THEN [found |-> TRUE, duration |-> Normalize(f.v)]
                  ELSE ProbeFrom(row, i + 1)
         ELSE ProbeFrom(row, i + 1)

\* Probe taking the first attribute that holds a number above 0
ProbeFirstPositive(row) ==
    LET pos == {i \in 1..Len(DurationAttrs) :
                   /\ Has(row, DurationAttrs[i])
                   /\ float(row.attrib[DurationAttrs[i]]).ok
                   /\ float(row.attrib[DurationAttrs[i]]).v > 0}
    IN  IF pos = {} THEN [found |-> FALSE, duration |-> Zero]
        ELSE LET i == CHOOSE i \in pos : \A j \in pos : i <= j
             IN  [found |-> TRUE, duration |-> Normalize(float(row.attrib[DurationAttrs[i]]).v)]

Probe(row) == ProbeFrom(row, 1)

\* row.attrib.get('symbol', row.attrib.get('name', row.tag))
FunctionOf(row) ==
    IF Has(row, "symbol") THEN row.attrib["symbol"].s
    ELSE IF Has(row, "name") THEN row.attrib["name"].s
    ELSE row.tag

\* float(row.attrib.get('start', row.attrib.get('time', 0)))
TimestampOf(row) ==
    IF Has(row, "start") THEN float(row.attrib["start"])
    ELSE IF Has(row, "time") THEN float(row.attrib["time"])
    ELSE [ok |-> TRUE, v |-> 0]

\* bt_elem is not None and bt_elem.text
BacktraceOf(row) == IF row.bt # NoBacktrace /\ row.bt # "" THEN row.bt ELSE None

HangEvent(duration, timestamp, function, backtrace, is_hang) ==
    [duration_ms |-> duration, timestamp_ms |-> timestamp, function |-> function,
     backtrace |-> backtrace, is_hang |-> is_hang]

\* Classify with > in place of >= at the hang threshold
ClassifyStrict(duration, hang_threshold_ms, stutter_threshold_ms) ==
    IF DLess(Ms(hang_threshold_ms), duration) THEN "hangs"
    ELSE IF DGeq(duration, Ms(stutter_threshold_ms)) THEN "stutters"
    ELSE "neither"

\* Classify taking the default of 250 ms for a hang threshold that is not above 0
ClassifyDefaultsNonPositive(duration, hang_threshold_ms, stutter_threshold_ms) ==
    IF DGeq(duration, Ms(IF hang_threshold_ms > 0 THEN hang_threshold_ms ELSE 250)) THEN "hangs"
    ELSE IF DGeq(duration, Ms(stutter_threshold_ms)) THEN "stutters"
    ELSE "neither"

\* Classify testing the stutter threshold before the hang threshold
ClassifyStutterFirst(duration, hang_threshold_ms, stutter_threshold_ms) ==
    IF DGeq(duration, Ms(stutter_threshold_ms)) THEN "stutters"
    ELSE IF DGeq(duration, Ms(hang_threshold_ms)) THEN "hangs"
    ELSE "neither"

\* lines 181-184: the sequence a retained sample is appended to
Classify(duration, hang_threshold_ms, stutter_threshold_ms) ==
    IF DGeq(duration, Ms(hang_threshold_ms)) THEN "hangs"
    ELSE IF DGeq(duration, Ms(stutter_threshold_ms)) THEN "stutters"
    ELSE "neither"

\* VisitRow keeping only the durations of the samples it puts in a sequence
VisitRowClassifiedOnly(row, acc, hang_threshold_ms, stutter_threshold_ms) ==
    LET p == Probe(row)
    IN  IF ~(p.found /\ DPositive(p.duration)) THEN acc
        ELSE LET ts == TimestampOf(row)
                 event == HangEvent(p.duration, ts.v, FunctionOf(row), BacktraceOf(row),
                                    DGeq(p.duration, Ms(hang_threshold_ms)))
                 to == Classify(p.duration, hang_threshold_ms, stutter_threshold_ms)
             IN  IF ~ts.ok THEN [acc EXCEPT !.raised = TRUE]
                 ELSE [acc EXCEPT !.all_durations = IF to = "neither" THEN @
                                                    ELSE Append(@, p.duration),
                                  !.hangs = IF to = "hangs" THEN Append(@, event) ELSE @,
                                  !.stutters = IF to = "stutters" THEN Append(@, event) ELSE @]

\* the body of the loop for one row, given the lists so far
VisitRow(row, acc, hang_threshold_ms, stutter_threshold_ms) ==
    LET p == Probe(row)
    IN  IF ~(p.found /\ DPositive(p.duration)) THEN acc
        ELSE LET ts == TimestampOf(row)
                 event == HangEvent(p.duration, ts.v, FunctionOf(row), BacktraceOf(row),
                                    DGeq(p.duration, Ms(hang_threshold_ms)))
                 to == Classify(p.duration, hang_threshold_ms, stutter_threshold_ms)
             IN  IF ~ts.ok THEN [acc EXCEPT !.raised = TRUE]
                 ELSE [acc EXCEPT !.all_durations = Append(@, p.duration),
                                  !.hangs = IF to = "hangs" THEN Append(@, event) ELSE @,
                                  !.stutters = IF to = "stutters" THEN Append(@, event) ELSE @]

NoSamples == [raised |-> FALSE, hangs |-> <<>>, stutters |-> <<>>, all_durations |-> <<>>]

\* for row in root.iter(), from the i-th node on; an uncaught ValueError ends the walk
RECURSIVE WalkFrom(_, _, _, _, _)
WalkFrom(doc, i, acc, hang_threshold_ms, stutter_threshold_ms) ==
    IF i > Len(doc) \/ acc.raised THEN acc
    ELSE WalkFrom(doc, i + 1, VisitRow(doc[i], acc, hang_threshold_ms, stutter_threshold_ms),
                  hang_threshold_ms, stutter_threshold_ms)

\* what ET.parse finds in the export file: a tree, or text that is not XML
Document(nodes) == [wellformed |-> TRUE, nodes |-> nodes]

NotXml == [wellformed |-> FALSE, nodes |-> <<>>]

\* parse_time_profile: raised = TRUE stands for the ValueError leaving the function
parse_time_profile(content, hang_threshold_ms, stutter_threshold_ms) ==
    IF ~content.wellformed THEN NoSamples
    ELSE WalkFrom(content.nodes, 1, NoSamples, hang_threshold_ms, stutter_threshold_ms)

(***************************************************************************)
(* analyze_trace: the statistics and the report.                           *)
(***************************************************************************)
Min(a, b) == IF a < b THEN a ELSE b

\* s[:n]
Take(s, n) == SubSeq(s, 1, Min(n, Len(s)))

\* InsertDesc putting e in front of the elements that last as long as e
RECURSIVE InsertDescUnstable(_, _)
InsertDescUnstable(e, sorted) ==
    IF sorted = <<>> THEN <<e>>
    ELSE IF ~DLess(e.duration_ms, Head(sorted).duration_ms) THEN <<e>> \o sorted
    ELSE <<Head(sorted)>> \o InsertDescUnstable(e, Tail(sorted))

\* one step of sorted(events, key=duration_ms, reverse=True): e goes behind
\* every element whose duration is >= its own (the sort is stable)
RECURSIVE InsertDesc(_, _)
InsertDesc(e, sorted) ==
    IF sorted = <<>> THEN <<e>>
    ELSE IF DLess(Head(sorted).duration_ms, e.duration_ms) THEN <<e>> \o sorted
    ELSE <<Head(sorted)>> \o InsertDesc(e, Tail(sorted))

RECURSIVE SortDescFrom(_, _, _)
SortDescFrom(events, i, sorted) ==
    IF i > Len(events) THEN sorted
    ELSE SortDescFrom(events, i + 1, InsertDesc(events[i], sorted))

\* sorted(events, key=lambda x: x.duration_ms, reverse=True)
SortedDesc(events) == SortDescFrom(events, 1, <<>>)

\* sorted(events, key=lambda x: x.duration_ms, reverse=True)[:10]
Top(events) == Take(SortedDesc(events), TopN)

RECURSIVE InsertAsc(_, _)
InsertAsc(d, sorted) ==
    IF sorted = <<>> THEN <<d>>
    ELSE IF DLess(d, Head(sorted)) THEN <<d>> \o sorted
    ELSE <<Head(sorted)>> \o InsertAsc(d, Tail(sorted))

\* sorted(all_durations)
RECURSIVE SortedAsc(_)
SortedAsc(ds) ==
    IF ds = <<>> THEN <<>> ELSE InsertAsc(ds[Len(ds)], SortedAsc(SubSeq(ds, 1, Len(ds) - 1)))

\* P95Index rounding to the nearest index where the source truncates
P95IndexRounded(n) == (n * 95 + 50) \div 100

\* P95Index at nine tenths of the population
P95IndexNinety(n) == (n * 90) \div 100

\* int(len(sorted_durations) * 0.95)
P95Index(n) == (n * 95) \div 100

\* lines 227-232; sequences are 1-based here
P95(all_durations) ==
    IF all_durations = <<>> THEN Zero
    ELSE LET sorted_durations == SortedAsc(all_durations)
             p95_index == P95Index(Len(sorted_durations))
         IN  sorted_durations[Min(p95_index, Len(sorted_durations) - 1) + 1]

RECURSIVE Durations(_)
Durations(events) ==
    IF events = <<>> THEN <<>> ELSE <<Head(events).duration_ms>> \o Durations(Tail(events))

AnalysisReport(trace_file, hang_threshold_ms, stutter_threshold_ms, total_samples, hang_count, stutter_count, total_hang_duration_ms, total_stutter_duration_ms, max_duration_ms, avg_duration_ms, p95_duration_ms, top_hangs, top_stutters, passed) ==
    [trace_file |-> trace_file,
     hang_threshold_ms |-> hang_threshold_ms,
     stutter_threshold_ms |-> stutter_threshold_ms,
     total_samples |-> total_samples,
     hang_count |-> hang_count,
     stutter_count |-> stutter_count,
     total_hang_duration_ms |-> total_hang_duration_ms,
     total_stutter_duration_ms |-> total_stutter_duration_ms,
     max_duration_ms |-> max_duration_ms,
     avg_duration_ms |-> avg_duration_ms,
     p95_duration_ms |-> p95_duration_ms,
     top_hangs |-> top_hangs,
     top_stutters |-> top_stutters,
     passed |-> passed]

\* EmptyReport counting the absence of data as a failure
EmptyReportFailing(trace_path, hang_threshold_ms, stutter_threshold_ms) ==
    AnalysisReport(trace_path, hang_threshold_ms, stutter_threshold_ms,
                   0, 0, 0, Zero, Zero, Zero, Zero, Zero, <<>>, <<>>, FALSE)

\* lines 194-211: the report returned when export_trace_data returned None
EmptyReport(trace_path, hang_threshold_ms, stutter_threshold_ms) ==
    AnalysisReport(trace_path, hang_threshold_ms, stutter_threshold_ms,
                   0, 0, 0, Zero, Zero, Zero, Zero, Zero, <<>>, <<>>, TRUE)

\* hang_count == 0
Passed(hang_count) == hang_count = 0

\* BuildReport failing the run on a stutter as well
BuildReportStutterFails(trace_path, hang_threshold_ms, stutter_threshold_ms, hangs, stutters, all_durations) ==
    AnalysisReport(trace_path, hang_threshold_ms, stutter_threshold_ms,
                   Len(all_durations), Len(hangs), Len(stutters),
                   Round2(DSum(Durations(hangs))), Round2(DSum(Durations(stutters))),
                   Round2(IF all_durations # <<>> THEN DMax(all_durations) ELSE Zero),
                   Round2(IF all_durations # <<>>
                          THEN DDiv(DSum(all_durations), Len(all_durations)) ELSE Zero),
                   Round2(P95(all_durations)),
                   Top(hangs), Top(stutters), Len(hangs) = 0 /\ Len(stutters) = 0)

\* BuildReport taking the maximum and the mean over the hangs only
BuildReportHangStats(trace_path, hang_threshold_ms, stutter_threshold_ms, hangs, stutters, all_durations) ==
    AnalysisReport(trace_path, hang_threshold_ms, stutter_threshold_ms,
                   Len(all_durations), Len(hangs), Len(stutters),
                   Round2(DSum(Durations(hangs))), Round2(DSum(Durations(stutters))),
                   Round2(IF hangs # <<>> THEN DMax(Durations(hangs)) ELSE Zero),
                   Round2(IF hangs # <<>>
                          THEN DDiv(DSum(Durations(hangs)), Len(hangs)) ELSE Zero),
                   Round2(P95(all_durations)),
                   Top(hangs), Top(stutters), Passed(Len(hangs)))

\* lines 215-253: the report built from the three lists
BuildReport(trace_path, hang_threshold_ms, stutter_threshold_ms, hangs, stutters, all_durations) ==
    LET total_samples == Len(all_durations)
        hang_count == Len(hangs)
        stutter_count == Len(stutters)
        total_hang_duration == DSum(Durations(hangs))
        total_stutter_duration == DSum(Durations(stutters))
        max_duration == IF all_durations # <<>> THEN DMax(all_durations) ELSE Zero
        avg_duration == IF all_durations # <<>>
                        THEN DDiv(DSum(all_durations), Len(all_durations)) ELSE Zero
        p95_duration == P95(all_durations)
    IN  AnalysisReport(trace_path, hang_threshold_ms, stutter_threshold_ms,
                       total_samples, hang_count, stutter_count,
                       Round2(total_hang_duration), Round2(total_stutter_duration),
                       Round2(max_duration), Round2(avg_duration), Round2(p95_duration),
                       Top(hangs), Top(stutters), Passed(hang_count))

(***************************************************************************)
(* Inputs: the command line, and the documents the export tool may leave.  *)
(***************************************************************************)
TraceFile == "performance.trace"

\* --hang-threshold / --stutter-threshold in whole milliseconds: the defaults,
\* the two exchanged, both equal, a zero and a negative hang threshold
ThresholdPairs ==
    {[hang |-> 250, stutter |-> 100], [hang |-> 100, stutter |-> 250],
     [hang |-> 250, stutter |-> 250], [hang |-> 0, stutter |-> 100],
     [hang |-> -1, stutter |-> 100], [hang |-> 1000, stutter |-> 100],
     [hang |-> 1001, stutter |-> 100]}

Args ==
    {[json |-> j, fail_on_hangs |-> f, hang_threshold |-> t.hang,
      stutter_threshold |-> t.stutter] : j \in BOOLEAN, f \in BOOLEAN, t \in ThresholdPairs}

Row(given) == Node("row", given, NoBacktrace)

\* the rows documents of several nodes are built from: a hang, a stutter and a
\* normal sample under the default thresholds, a discarded row, and a row whose
\* start attribute is not a number
BasicRows ==
    {Row("duration" :> Num(300)),
     Row("duration" :> Num(150)),
     Row("duration" :> Num(50)),
     Row("duration" :> Num(0)),
     Row(("duration" :> Num(300)) @@ ("start" :> Txt("abc")))}

\* further rows, each tried as a document of its own
SingleRows ==
    {Row("duration" :> Num(250)),
     Row("duration" :> Num(100)),
     Row("duration" :> Num(249)),
     Row("duration" :> Num(99)),
     Row("weight" :> Num(-5)),
     Node("sample", ("duration" :> Txt("abc")) @@ ("weight" :> Num(400)) @@ ("symbol" :> Txt("main")),
          "frame0 frame1"),
     Row(("duration" :> Num(0)) @@ ("weight" :> Num(400))),
     Row(("self-weight" :> Txt("")) @@ ("total-weight" :> Num(120)) @@ ("sample-count" :> Num(7))),
     Row(("duration" :> Num(300)) @@ ("time" :> Txt("abc"))),
     Row(("duration" :> Num(0)) @@ ("start" :> Txt("abc"))),
     Row(("duration" :> Num(300)) @@ ("start" :> Num(7)) @@ ("time" :> Txt("abc"))),
     Node("table", <<>>, NoBacktrace),
     Node("row", ("sample-count" :> Num(150)) @@ ("name" :> Txt("f")) @@ ("time" :> Num(9)), ""),
     Row(("duration" :> Num(300)) @@ ("symbol" :> Txt("")) @@ ("name" :> Txt("g"))),
     Row("duration" :> Num(2000)),
     Row("duration" :> Num(1000000)),
     Row("duration" :> Num(1000001)),
     Row("duration" :> Num(1249996)),
     Row("duration" :> Num(2000000)),
     Row("duration" :> Num(1000000000)),
     Row("duration" :> Num(1000000001)),
     Row("duration" :> Num(2000000000))}

\* every sequence of 1..n elements of S
RECURSIVE SeqsUpTo(_, _)
SeqsUpTo(S, n) ==
    IF n = 0 THEN {}
    ELSE LET shorter == SeqsUpTo(S, n - 1)
         IN  {<<x>> : x \in S} \cup shorter \cup {Append(q, x) : q \in shorter, x \in S}

\* a document of n rows whose start attribute is their position; the row at
\* position i lasts mid, except at the positions of lows and highs
Uniform(n, mid, lows, low, highs, high) ==
    [i \in 1..n |->
        Row(("duration" :> Num(IF i \in lows THEN low ELSE IF i \in highs THEN high ELSE mid))
            @@ ("start" :> Num(i)))]

\* the ways to pick at most two positions of 1..n, each marked low or high
Marks(n) ==
    {[lows |-> {}, highs |-> {}]}
    \cup {[lows |-> {i}, highs |-> {}] : i \in 1..n}
    \cup {[lows |-> {}, highs |-> {i}] : i \in 1..n}
    \cup {[lows |-> l, highs |-> h] : l \in {{i} : i \in 1..n}, h \in {{i} : i \in 1..n}}
    \cup {[lows |-> {i, j}, highs |-> {}] : i \in 1..n, j \in 1..n}
    \cup {[lows |-> {}, highs |-> {i, j}] : i \in 1..n, j \in 1..n}

\* documents of TopN..MaxLong rows that all last the same, but for at most two:
\* one family in the hang range and one in the stutter range of the defaults
LongDocs ==
    UNION {{Uniform(n, 400, m.lows \ m.highs, 300, m.highs, 500) : m \in Marks(n)}
           \cup {Uniform(n, 150, m.lows \ m.highs, 120, m.highs, 180) : m \in Marks(n)}
           : n \in TopN..MaxLong}

ShortDocs == {<<r>> : r \in SingleRows} \cup SeqsUpTo(BasicRows, MaxNodes)

\* what ET.parse may find in the export file
Contents == {NotXml} \cup {Document(d) : d \in ShortDocs}

\* a document of n rows that last step, 2 * step, ..., n * step, met in this
\* order or in the opposite one
Ramp(n, step, rising) ==
    [i \in 1..n |->
        Row(("duration" :> Num(step * (IF rising THEN i ELSE n + 1 - i))) @@ ("start" :> Num(i)))]

\* the ramps of 1..MaxRamp rows in steps of 10 ms (stutters and normal samples
\* under the defaults) and of 20 ms (hangs as well)
RampDocs == {Ramp(n, step, rising) : n \in 1..MaxRamp, step \in {10, 20}, rising \in BOOLEAN}

LongContents == {NotXml, Document(<<Row("duration" :> Num(0))>>)}
                \cup {Document(d) : d \in LongDocs \cup RampDocs}

(***************************************************************************)
(* The scratch directory and the export tool.                              *)
(***************************************************************************)
TocPath == "toc.xml"

TimeProfilePath == "time_profile.xml"

AllDataPath == "all_data.xml"

Paths == {TocPath, TimeProfilePath, AllDataPath}

\* xpaths with the query for any table of any run tried first
xpathsAnyTableFirst ==
    <<"/trace-toc/run/data/table",
      "/trace-toc/run[@number=\"1\"]/data/table[@schema=\"time-profile\"]",
      "/trace-toc/run[@number=\"1\"]/tracks/track/table[@schema=\"time-profile\"]">>

\* xpaths, lines 84-88
xpaths ==
    <<"/trace-toc/run[@number=\"1\"]/data/table[@schema=\"time-profile\"]",
      "/trace-toc/run[@number=\"1\"]/tracks/track/table[@schema=\"time-profile\"]",
      "/trace-toc/run/data/table">>

NoFile == [exists |-> FALSE, size |-> 0, writer |-> 0]

\* sizes of a file the tool writes: at and just above the size line 99 asks for
Sizes == {MinExportBytes, MinExportBytes + 1}

\* what one run of the tool may do: its status, and whether it writes its output
Outcomes == {[returncode |-> rc, wrote |-> w, size |-> IF w THEN sz ELSE 0] :
             rc \in {0, 1}, w \in BOOLEAN, sz \in Sizes}

\* the size of toc.xml is never looked at: one size stands for all
TocOutcomes == {o \in Outcomes : o.size # MinExportBytes}

\* the two plain outcomes: a full export, and a failure that writes nothing
PlainOutcomes == {o \in Outcomes : o.wrote = (o.returncode = 0) /\ o.size # MinExportBytes}

\* a line on standard output or standard error
Line(text) == [kind |-> "line", text |-> text, report |-> <<>>]

\* json.dumps(asdict(report), indent=2)
Json(r) == [kind |-> "json", text |-> "", report |-> <<r>>]

\* what print_report writes
Human(r) == [kind |-> "human", text |-> "", report |-> <<r>>]

VARIABLES
    pc,             \* where main() is
    args,           \* the parsed command line
    trace_exists,   \* os.path.exists(args.trace_file)
    tmpdir,         \* the TemporaryDirectory: "none", "live" or "deleted"
    files,          \* the files of the scratch directory
    calls,          \* the invocations of the export tool, in order
    result,         \* <<result.returncode>> of the last invocation, <<>> before
    xpath_index,    \* the position of the loop of line 90 (1-based)
    xml_path,       \* the result of export_trace_data
    content,        \* what parse_time_profile read, <<>> before
    hangs,          \* the lists parse_time_profile returned
    stutters,
    all_durations,
    report,         \* <<the report analyze_trace returned>>, <<>> before
    stdout,
    stderr,
    exit_code       \* <<the exit status>>, <<>> while running

vars == <<pc, args, trace_exists, tmpdir, files, calls, result, xpath_index, xml_path, content,
          hangs, stutters, all_durations, report, stdout, stderr, exit_code>>

Init ==
    /\ pc = "main"
    /\ args \in Args
    /\ trace_exists \in BOOLEAN
    /\ tmpdir = "none"
    /\ files = [p \in Paths |-> NoFile]
    /\ calls = <<>>
    /\ result = <<>>
    /\ xpath_index = 1
    /\ xml_path = None
    /\ content = <<>>
    /\ hangs = <<>>
    /\ stutters = <<>>
    /\ all_durations = <<>>
    /\ report = <<>>
    /\ stdout = <<>>
    /\ stderr = <<>>
    /\ exit_code = <<>>

(***************************************************************************)
(* The steps of main().                                                    *)
(***************************************************************************)
\* the file at path after a run of the tool with outcome o, as call number n
Written(path, o, n) ==
    IF o.wrote THEN [files EXCEPT ![path] = [exists |-> TRUE, size |-> o.size, writer |-> n]]
    ELSE files

\* leaving the with block of line 191: the directory and all in it are removed
Cleanup ==
    /\ tmpdir' = "deleted"
    /\ files' = [p \in Paths |-> NoFile]

\* Uncaught without the cleanup of the with block
UncaughtLeaks(error) ==
    /\ UNCHANGED <<tmpdir, files>>
    /\ stderr' = Append(stderr, Line(error))
    /\ exit_code' = <<ExitFailure>>
    /\ pc' = "exited"

\* an exception leaves analyze_trace and main: the with block cleans up, the
\* interpreter prints the traceback and exits with status 1
Uncaught(error) ==
    /\ Cleanup
    /\ stderr' = Append(stderr, Line(error))
    /\ exit_code' = <<ExitFailure>>
    /\ pc' = "exited"

\* MissingTrace without the sys.exit(1): the analysis is run all the same
MissingTraceGoesOn ==
    /\ pc = "main"
    /\ ~trace_exists
    /\ stderr' = Append(stderr, Line("Error: Trace file not found"))
    /\ tmpdir' = "live"
    /\ pc' = "toc"
    /\ UNCHANGED <<result, args, trace_exists, files, calls, xpath_index, xml_path, content,
                   hangs, stutters, all_durations, report, stdout, exit_code>>

\* lines 329-331
MissingTrace ==
    /\ pc = "main"
    /\ ~trace_exists
    /\ stderr' = Append(stderr, Line("Error: Trace file not found"))
    /\ exit_code' = <<ExitFailure>>
    /\ pc' = "exited"
    /\ UNCHANGED <<result, args, trace_exists, tmpdir, files, calls, xpath_index, xml_path, content,
                   hangs, stutters, all_durations, report, stdout>>

\* lines 333, 191-192: analyze_trace creates the scratch directory and calls
\* export_trace_data
EnterAnalyze ==
    /\ pc = "main"
    /\ trace_exists
    /\ tmpdir' = "live"
    /\ pc' = "toc"
    /\ UNCHANGED <<result, args, trace_exists, files, calls, xpath_index, xml_path, content,
                   hangs, stutters, all_durations, report, stdout, stderr, exit_code>>

\* ExportToc giving up the negotiation when the table of contents fails
ExportTocGivesUp(outcomes) ==
    /\ pc = "toc"
    /\ \E o \in outcomes :
        /\ calls' = Append(calls, "--toc")
        /\ result' = <<o.returncode>>
        /\ files' = Written(TocPath, o, Len(calls) + 1)
        /\ stderr' = IF o.returncode # 0
                     THEN Append(stderr, Line("Warning: Failed to export TOC")) ELSE stderr
        /\ pc' = IF o.returncode # 0 THEN "no_export" ELSE "xpath"
    /\ stdout' = stdout \o <<Line("Exporting trace table of contents..."),
                             Line("Exporting time profile data...")>>
    /\ xpath_index' = 1
    /\ UNCHANGED <<args, trace_exists, tmpdir, xml_path, content, hangs, stutters,
                   all_durations, report, exit_code>>

\* lines 66-81: the table of contents, then the announcement of the queries
ExportToc(outcomes) ==
    /\ pc = "toc"
    /\ \E o \in outcomes :
        /\ calls' = Append(calls, "--toc")
        /\ result' = <<o.returncode>>
        /\ files' = Written(TocPath, o, Len(calls) + 1)
        /\ stderr' = IF o.returncode # 0
                     THEN Append(stderr, Line("Warning: Failed to export TOC")) ELSE stderr
    /\ stdout' = stdout \o <<Line("Exporting trace table of contents..."),
                             Line("Exporting time profile data...")>>
    /\ xpath_index' = 1
    /\ pc' = "xpath"
    /\ UNCHANGED <<args, trace_exists, tmpdir, xml_path, content, hangs, stutters,
                   all_durations, report, exit_code>>

\* line 97-99: the test that accepts a query's output
Accepted(returncode, file) ==
    returncode = 0 /\ file.exists /\ file.size > MinExportBytes

\* lines 90-101: one iteration of the loop over xpaths
TryXpath(outcomes) ==
    /\ pc = "xpath"
    /\ \E o \in outcomes :
        LET after == Written(TimeProfilePath, o, Len(calls) + 1)
        IN  /\ calls' = Append(calls, xpaths[xpath_index])
            /\ result' = <<o.returncode>>
            /\ files' = after
            /\ IF Accepted(o.returncode, after[TimeProfilePath])
               THEN /\ stdout' = Append(stdout, Line("  Exported bytes using xpath"))
                    /\ xml_path' = TimeProfilePath
                    /\ pc' = "parse"
                    /\ UNCHANGED xpath_index
               ELSE /\ IF xpath_index < Len(xpaths)
                       THEN xpath_index' = xpath_index + 1 /\ pc' = "xpath"
                       ELSE UNCHANGED xpath_index /\ pc' = "generic"
                    /\ UNCHANGED <<stdout, xml_path>>
    /\ UNCHANGED <<args, trace_exists, tmpdir, content, hangs, stutters, all_durations,
                   report, stderr, exit_code>>

\* lines 103-116: the export of all data
GenericExport(outcomes) ==
    /\ pc = "generic"
    /\ stdout' = Append(stdout, Line("Time profile export failed, trying generic export..."))
    /\ \E o \in outcomes :
        LET after == Written(AllDataPath, o, Len(calls) + 1)
        IN  /\ calls' = Append(calls, "--output")
            /\ result' = <<o.returncode>>
            /\ files' = after
            /\ IF o.returncode = 0 /\ after[AllDataPath].exists
               THEN /\ xml_path' = AllDataPath
                    /\ pc' = "parse"
                    /\ UNCHANGED stderr
               ELSE /\ xml_path' = None
                    /\ pc' = "no_export"
                    /\ stderr' = Append(stderr, Line("Error: Could not export trace data"))
    /\ UNCHANGED <<args, trace_exists, tmpdir, xpath_index, content, hangs, stutters,
                   all_durations, report, exit_code>>

\* subprocess.run raises OSError (xcrun cannot be started) at the next
\* invocation: lines 71, 91 or 106, after the print that precedes it
ExportRaises ==
    /\ pc \in {"toc", "xpath", "generic"}
    /\ stdout' = IF pc = "toc" THEN Append(stdout, Line("Exporting trace table of contents..."))
                 ELSE IF pc = "generic"
                 THEN Append(stdout, Line("Time profile export failed, trying generic export..."))
                 ELSE stdout
    /\ Uncaught("OSError")
    /\ UNCHANGED <<result, args, trace_exists, calls, xpath_index, xml_path, content, hangs, stutters,
                   all_durations, report>>

\* lines 194-211: no export, the empty report is returned from inside the with block
ReturnEmpty ==
    /\ pc = "no_export"
    /\ xml_path = None
    /\ report' = <<EmptyReport(TraceFile, args.hang_threshold, args.stutter_threshold)>>
    /\ Cleanup
    /\ pc' = "emit"
    /\ UNCHANGED <<result, args, trace_exists, calls, xpath_index, xml_path, content, hangs, stutters,
                   all_durations, stdout, stderr, exit_code>>

\* lines 213-253: the export file is read and parsed inside the with block, the
\* block is left, the report is built and returned
ParseAndReport(contents) ==
    /\ pc = "parse"
    /\ xml_path # None
    /\ IF ~(tmpdir = "live" /\ files[xml_path].exists)
       THEN /\ Uncaught("FileNotFoundError")
            /\ UNCHANGED <<content, hangs, stutters, all_durations, report, stdout>>
       ELSE \E c \in contents :
            LET parsed == parse_time_profile(c, args.hang_threshold, args.stutter_threshold)
            IN  /\ content' = <<c>>
                /\ IF parsed.raised
                   THEN /\ Uncaught("ValueError")
                        /\ UNCHANGED <<hangs, stutters, all_durations, report, stdout>>
                   ELSE /\ hangs' = parsed.hangs
                        /\ stutters' = parsed.stutters
                        /\ all_durations' = parsed.all_durations
                        /\ Cleanup
                        /\ report' = <<BuildReport(TraceFile, args.hang_threshold,
                                                   args.stutter_threshold, parsed.hangs,
                                                   parsed.stutters, parsed.all_durations)>>
                        /\ stderr' = IF c.wellformed THEN stderr
                                     ELSE Append(stderr, Line("Warning: Could not parse XML"))
                        /\ pc' = "emit"
                        /\ UNCHANGED <<stdout, exit_code>>
    /\ UNCHANGED <<result, args, trace_exists, calls, xpath_index, xml_path>>

\* EmitAndExit failing on hangs whether or not --fail-on-hangs was given
EmitAndExitAlwaysFails ==
    /\ pc = "emit"
    /\ stdout' = Append(stdout, IF args.json THEN Json(report[1]) ELSE Human(report[1]))
    /\ exit_code' = IF ~report[1].passed THEN <<ExitFailure>> ELSE <<ExitSuccess>>
    /\ pc' = "exited"
    /\ UNCHANGED <<result, args, trace_exists, tmpdir, files, calls, xpath_index, xml_path, content,
                   hangs, stutters, all_durations, report, stderr>>

\* lines 335-341: the report is written and the process ends
EmitAndExit ==
    /\ pc = "emit"
    /\ stdout' = Append(stdout, IF args.json THEN Json(report[1]) ELSE Human(report[1]))
    /\ exit_code' = IF args.fail_on_hangs /\ ~report[1].passed
                    THEN <<ExitFailure>> ELSE <<ExitSuccess>>
    /\ pc' = "exited"
    /\ UNCHANGED <<result, args, trace_exists, tmpdir, files, calls, xpath_index, xml_path, content,
                   hangs, stutters, all_durations, report, stderr>>

\* every command line and every behaviour of the tool, on the short documents
Next ==
    \/ MissingTrace
    \/ EnterAnalyze
    \/ ExportToc(TocOutcomes)
    \/ TryXpath(Outcomes)
    \/ GenericExport(Outcomes)
    \/ ExportRaises
    \/ ReturnEmpty
    \/ ParseAndReport(Contents)
    \/ EmitAndExit

Spec == Init /\ [][Next]_vars

\* the default thresholds and a tool that exports fully or not at all, on the
\* long documents
InitLong ==
    /\ Init
    /\ args.hang_threshold = 250
    /\ args.stutter_threshold = 100
    /\ args.fail_on_hangs
    /\ ~args.json

NextLong ==
    \/ MissingTrace
    \/ EnterAnalyze
    \/ ExportToc(PlainOutcomes)
    \/ TryXpath(PlainOutcomes)
    \/ GenericExport(PlainOutcomes)
    \/ ExportRaises
    \/ ReturnEmpty
    \/ ParseAndReport(LongContents)
    \/ EmitAndExit

SpecLong == InitLong /\ [][NextLong]_vars

(***************************************************************************)
(* Properties.                                                             *)
(***************************************************************************)
\* the run ended after main() wrote a report
Reported == pc = "exited" /\ report # <<>>

\* C1: in a run that reaches the report the exit code is 1 exactly when
\* --fail-on-hangs was given and the report counts at least one hang (passed is
\* false), and 0 otherwise, in human and JSON mode, whatever the stutters.
C1_ExitCode ==
    Reported =>
        /\ exit_code \in {<<0>>, <<1>>}
        /\ exit_code = <<1>> <=> (args.fail_on_hangs /\ ~report[1].passed)
        /\ exit_code = <<1>> <=> (args.fail_on_hangs /\ report[1].hang_count >= 1)

\* a JSON run with the flag and a hang, ended with status 1
C1_Witness ==
    Reported /\ args.json /\ args.fail_on_hangs /\ report[1].hang_count >= 1
    /\ exit_code = <<1>>

\* C2: in every report passed is true exactly when hang_count is 0, whatever
\* the stutters.
C2_PassedIffNoHang ==
    report # <<>> => (report[1].passed <=> report[1].hang_count = 0)

\* a report with stutters and no hang, which passed
C2_Witness ==
    report # <<>> /\ report[1].stutter_count > 0 /\ report[1].hang_count = 0
    /\ report[1].passed

\* the durations of ds that are at or above the hang threshold h
AtOrAboveHang(ds, h) ==
    LET Test(d) == d.ms >= h IN SelectSeq(ds, Test)

\* the durations of ds in [s, h)
InStutterRange(ds, h, s) ==
    LET Test(d) == d.ms >= s /\ d.ms < h IN SelectSeq(ds, Test)

\* C3: of the retained samples, taken in document order, the hang sequence
\* holds exactly those with d >= hang_threshold and the stutter sequence exactly
\* those with stutter_threshold <= d < hang_threshold (so none is in both), and
\* is_hang is true exactly on the samples of the hang sequence.
C3_Classification ==
    report # <<>> =>
        /\ Durations(hangs) = AtOrAboveHang(all_durations, args.hang_threshold)
        /\ Durations(stutters) =
               InStutterRange(all_durations, args.hang_threshold, args.stutter_threshold)
        /\ \A i \in 1..Len(hangs) : hangs[i].is_hang
        /\ \A i \in 1..Len(stutters) : ~stutters[i].is_hang

\* a sample that lasts exactly the hang threshold is in the hang sequence
C3_Witness ==
    /\ report # <<>>
    /\ \E i \in 1..Len(hangs) : hangs[i].duration_ms = [ms |-> args.hang_threshold, frac |-> 0]
    /\ args.stutter_threshold < args.hang_threshold

\* the report of an analysis without samples
AllZero ==
    [trace_file |-> TraceFile,
     hang_threshold_ms |-> args.hang_threshold,
     stutter_threshold_ms |-> args.stutter_threshold,
     total_samples |-> 0, hang_count |-> 0, stutter_count |-> 0,
     total_hang_duration_ms |-> [ms |-> 0, frac |-> 0],
     total_stutter_duration_ms |-> [ms |-> 0, frac |-> 0],
     max_duration_ms |-> [ms |-> 0, frac |-> 0],
     avg_duration_ms |-> [ms |-> 0, frac |-> 0],
     p95_duration_ms |-> [ms |-> 0, frac |-> 0],
     top_hangs |-> <<>>, top_stutters |-> <<>>, passed |-> TRUE]

\* the row holds a number above 0 in one of the duration attributes
HasPositive(row) ==
    \E a \in {"duration", "weight", "self-weight", "total-weight", "sample-count"} :
        row.attrib[a].k = "num" /\ row.attrib[a].v > 0

\* C4: when the negotiation returned no export, or the document did not parse,
\* or no node of it holds a positive duration, the report is all zero, passed,
\* and echoes the trace path and the two thresholds.
C4_EmptyReport ==
    report # <<>> =>
        /\ xml_path = None => report[1] = AllZero
        /\ (content # <<>> /\ ~content[1].wellformed) => report[1] = AllZero
        /\ (content # <<>> /\ \A i \in 1..Len(content[1].nodes) : ~HasPositive(content[1].nodes[i]))
               => report[1] = AllZero
        /\ all_durations = <<>> => report[1] = AllZero

\* a run whose negotiation failed, under thresholds other than the defaults
C4_Witness ==
    Reported /\ xml_path = None /\ args.hang_threshold = 100 /\ calls # <<>>

\* C5: once the trace exists and the export document has been read, the run
\* ends with a report, whatever the document holds.
C5_AlwaysReport ==
    (pc = "exited" /\ trace_exists /\ content # <<>>) => report # <<>>

\* C6: when the trace path does not exist the run ends with status 1 and the
\* error on standard error, and the tool is never invoked, no scratch directory
\* is created and nothing is written to standard output.
C6_MissingTrace ==
    ~trace_exists =>
        /\ calls = <<>>
        /\ tmpdir = "none"
        /\ stdout = <<>>
        /\ report = <<>>
        /\ pc \in {"main", "exited"}
        /\ pc = "exited" =>
               /\ exit_code = <<1>>
               /\ stderr = <<[kind |-> "line", text |-> "Error: Trace file not found",
                              report |-> <<>>]>>

\* the run on a missing trace has ended, --json and --fail-on-hangs given
C6_Witness ==
    ~trace_exists /\ pc = "exited" /\ args.json /\ args.fail_on_hangs

\* C7: in a run with --json that reaches the report, standard output holds the
\* JSON serialization of the report and nothing else.
C7_JsonOnly ==
    (Reported /\ args.json) => stdout = <<[kind |-> "json", text |-> "", report |-> report]>>

\* C8: the export document is read only while the scratch directory and the
\* file are there, and once analyze_trace has returned or raised, the directory
\* and every file in it are gone.
C8_Step ==
    /\ content' # content =>
           tmpdir = "live" /\ xml_path \in Paths /\ files[xml_path].exists
    /\ pc' \in {"emit", "exited"} =>
           tmpdir' # "live" /\ \A p \in Paths : ~files'[p].exists

C8_ScratchScoped == [][C8_Step]_vars

\* parsing raised after the tool had written files, and the scratch directory
\* is gone
C8_Witness ==
    pc = "exited" /\ content # <<>> /\ report = <<>> /\ tmpdir = "deleted"
    /\ Len(calls) >= 2

\* the first of the duration attributes of the row that holds a number holds
\* one above 0
HasPositiveFirst(row) ==
    \E i \in 1..5 :
        /\ row.attrib[DurationAttrs[i]].k = "num"
        /\ row.attrib[DurationAttrs[i]].v > 0
        /\ \A j \in 1..(i - 1) : row.attrib[DurationAttrs[j]].k # "num"

\* the retained durations below both thresholds
BelowBoth(ds, h, s) ==
    LET Test(d) == d.ms < h /\ d.ms < s IN SelectSeq(ds, Test)

\* C9: in every report hang_count + stutter_count <= total_samples, where
\* total_samples counts every retained sample; the difference is the number of
\* retained samples below both thresholds, so equality holds exactly when there
\* is none.
C9_Counts ==
    report # <<>> =>
        LET r == report[1]
            normal == BelowBoth(all_durations, args.hang_threshold, args.stutter_threshold)
        IN  /\ r.hang_count + r.stutter_count <= r.total_samples
            /\ r.total_samples = Len(all_durations)
            /\ content # <<>> =>
                   r.total_samples = Cardinality({i \in 1..Len(content[1].nodes) :
                                                     HasPositiveFirst(content[1].nodes[i])})
            /\ r.total_samples - (r.hang_count + r.stutter_count) = Len(normal)
            /\ (r.hang_count + r.stutter_count = r.total_samples) <=> (normal = <<>>)

\* a hang and a sample below both thresholds: the counts fall short of the total
C9_Witness ==
    /\ report # <<>>
    /\ report[1].hang_count = 1
    /\ report[1].stutter_count = 0
    /\ report[1].total_samples = 2

\* 1 + the number of events of bucket that come before the j-th in the order
\* "longer first, and of two that last the same the one met first"
Rank(bucket, j) ==
    1 + Cardinality({i \in 1..Len(bucket) :
            \/ DLess(bucket[j].duration_ms, bucket[i].duration_ms)
            \/ (bucket[i].duration_ms = bucket[j].duration_ms /\ i < j)})

TopOf(top, bucket) ==
    /\ Len(top) = (IF Len(bucket) < 10 THEN Len(bucket) ELSE 10)
    /\ \A r \in 1..Len(top) : \E j \in 1..Len(bucket) : Rank(bucket, j) = r /\ top[r] = bucket[j]

\* C10: top_hangs and top_stutters hold min(10, bucket count) entries, the
\* longest samples of the bucket, longest first, and of samples that last the
\* same the one met earlier in the walk first, also across the cut at 10.
C10_TopN ==
    (report # <<>> /\ content # <<>>) =>
        /\ TopOf(report[1].top_hangs, hangs)
        /\ TopOf(report[1].top_stutters, stutters)

\* more than 10 hangs, the last one the longest, and a hang left out that lasts
\* as long as the 10th entry and was met after it
C10_Witness ==
    /\ report # <<>>
    /\ Len(hangs) > 10
    /\ report[1].top_hangs[1] = hangs[Len(hangs)]
    /\ \E j \in 1..Len(hangs) :
        /\ hangs[j].duration_ms = report[1].top_hangs[10].duration_ms
        /\ hangs[j].timestamp_ms > report[1].top_hangs[10].timestamp_ms

\* a sorts before b as float values
Before(a, b) == a.ms < b.ms \/ (a.ms = b.ms /\ a.frac < b.frac)

\* v is the element at 0-based index idx of ds sorted ascending
AtSortedIndex(ds, idx, v) ==
    /\ \E j \in 1..Len(ds) : ds[j] = v
    /\ Cardinality({i \in 1..Len(ds) : Before(ds[i], v)}) <= idx
    /\ Cardinality({i \in 1..Len(ds) : ~Before(v, ds[i])}) > idx

\* C11: for n > 0 retained samples p95_duration_ms is the element at 0-based
\* index min(floor(0.95 * n), n - 1) of all their durations sorted ascending;
\* for the durations 10, 20, ..., 100 it is 100; for no sample it is 0.
C11_P95 ==
    report # <<>> =>
        LET n == Len(all_durations)
            r == report[1]
        IN  /\ n = 0 => r.p95_duration_ms = [ms |-> 0, frac |-> 0]
            /\ n > 0 =>
                   \E k \in 0..n :
                       /\ 100 * k <= 95 * n
                       /\ 95 * n < 100 * (k + 1)
                       /\ AtSortedIndex(all_durations, IF k < n - 1 THEN k ELSE n - 1,
                                        r.p95_duration_ms)
            /\ all_durations = [i \in 1..10 |-> [ms |-> 10 * i, frac |-> 0]]
                   => r.p95_duration_ms = [ms |-> 100, frac |-> 0]

\* 21 samples: the 95th percentile is the 20th smallest, not the largest
C11_Witness ==
    /\ report # <<>>
    /\ Len(all_durations) = 21
    /\ report[1].p95_duration_ms = [ms |-> 400, frac |-> 0]
    /\ report[1].max_duration_ms = [ms |-> 420, frac |-> 0]

\* the sum of the whole milliseconds of ds
RECURSIVE MsTotal(_)
MsTotal(ds) == IF Len(ds) = 0 THEN 0 ELSE ds[1].ms + MsTotal(SubSeq(ds, 2, Len(ds)))

\* x in hundredths of a millisecond, for x a multiple of 0.01 ms
Hundredths(x) == x.ms * 100 + x.frac \div 10000

\* C12: max_duration_ms is the largest and avg_duration_ms the mean (to the
\* nearest 0.01 ms) of the durations of all retained samples, both 0 without
\* samples, and the two totals are the sums over every sample of their bucket.
\* Stated for samples of whole milliseconds.
C12_Aggregates ==
    (report # <<>> /\ \A i \in 1..Len(all_durations) : all_durations[i].frac = 0) =>
        LET n == Len(all_durations)
            r == report[1]
            total == MsTotal(all_durations)
            off == 100 * total - n * Hundredths(r.avg_duration_ms)
        IN  /\ n = 0 => /\ r.max_duration_ms = [ms |-> 0, frac |-> 0]
                        /\ r.avg_duration_ms = [ms |-> 0, frac |-> 0]
            /\ n > 0 => /\ \E j \in 1..n : r.max_duration_ms = all_durations[j]
                        /\ \A i \in 1..n : all_durations[i].ms <= r.max_duration_ms.ms
                        /\ r.avg_duration_ms.frac % 10000 = 0
                        /\ 2 * off <= n /\ 2 * off >= -n
            /\ r.total_hang_duration_ms = [ms |-> MsTotal(Durations(hangs)), frac |-> 0]
            /\ r.total_stutter_duration_ms = [ms |-> MsTotal(Durations(stutters)), frac |-> 0]

\* more than 10 stutters next to normal samples: the total covers the stutters
\* beyond the top 10, the mean covers the normal samples
C12_Witness ==
    /\ report # <<>>
    /\ report[1].stutter_count > 10
    /\ report[1].total_samples > report[1].stutter_count
    /\ report[1].total_stutter_duration_ms.ms > MsTotal(Durations(report[1].top_stutters))
    /\ report[1].avg_duration_ms = [ms |-> 110, frac |-> 0]

\* x is a multiple of 0.01 ms
IsRounded(x) == x.frac % 10000 = 0

\* C13: every duration of the report is rounded to 2 decimal places: the two
\* totals, the maximum, the mean, the 95th percentile and the duration_ms of
\* every entry of top_hangs and top_stutters.
C13_AllRounded ==
    report # <<>> =>
        LET r == report[1]
        IN  /\ IsRounded(r.total_hang_duration_ms)
            /\ IsRounded(r.total_stutter_duration_ms)
            /\ IsRounded(r.max_duration_ms)
            /\ IsRounded(r.avg_duration_ms)
            /\ IsRounded(r.p95_duration_ms)
            /\ \A i \in 1..Len(r.top_hangs) : IsRounded(r.top_hangs[i].duration_ms)
            /\ \A i \in 1..Len(r.top_stutters) : IsRounded(r.top_stutters[i].duration_ms)

\* the document is the single row <row duration="v"/>
OnlyRowLasts(v) ==
    /\ content # <<>>
    /\ content[1].wellformed
    /\ Len(content[1].nodes) = 1
    /\ content[1].nodes[1].attrib["duration"] = [k |-> "num", v |-> v, s |-> ""]

C15_HandleNotEmpty ==
    (pc = "parse" /\ xml_path # None) =>
        files[xml_path].exists /\ files[xml_path].size > 100

\* the four candidates after the table of contents, in the order of the source
CandidateOrder ==
    <<"--toc",
      "/trace-toc/run[@number=\"1\"]/data/table[@schema=\"time-profile\"]",
      "/trace-toc/run[@number=\"1\"]/tracks/track/table[@schema=\"time-profile\"]",
      "/trace-toc/run/data/table",
      "--output">>

\* C16: each invocation is the next of the fixed order and is made only while
\* no candidate has been accepted; a query is accepted exactly when it returned
\* 0 and its output exists with more than 100 bytes, the full dump exactly when
\* it returned 0 and its output exists; the negotiator returns "no export"
\* exactly when the fourth candidate has been invoked and rejected.
C16_Step ==
    /\ calls' # calls =>
           /\ Len(calls) < 5
           /\ calls' = Append(calls, CandidateOrder[Len(calls) + 1])
           /\ xml_path = None
           /\ pc \in {"toc", "xpath", "generic"}
    /\ (calls' # calls /\ Len(calls') \in 2..4) =>
           /\ xpath_index = Len(calls)
           /\ pc' = "parse" <=>
                  (result' = <<0>> /\ files'[TimeProfilePath].exists
                   /\ files'[TimeProfilePath].size > 100)
           /\ pc' = "parse" => xml_path' = TimeProfilePath
           /\ pc' # "parse" =>
                  /\ xml_path' = None
                  /\ pc' = (IF Len(calls') < 4 THEN "xpath" ELSE "generic")
    /\ (calls' # calls /\ Len(calls') = 5) =>
           /\ pc' = "parse" <=> (result' = <<0>> /\ files'[AllDataPath].exists)
           /\ pc' = "parse" => xml_path' = AllDataPath
           /\ pc' # "parse" => pc' = "no_export" /\ xml_path' = None
    /\ (pc # "no_export" /\ pc' = "no_export") => (calls' # calls /\ Len(calls') = 5)

C16_CandidateOrder == [][C16_Step]_vars

\* all four candidates were invoked and rejected: no export
C16_Witness ==
    pc = "no_export" /\ xml_path = None /\ Len(calls) = 5 /\ result = <<0>>

\* C17: the table of contents is exported once, first; whatever its outcome,
\* the step leaves the candidates' files and the handle alone and goes on to the
\* first query, and what each later invocation decides is determined by its own
\* status and output file: the handle does not depend on the outcome of the
\* table-of-contents export.
C17_Step ==
    /\ calls' # calls => (calls'[Len(calls')] = "--toc" <=> calls = <<>>)
    /\ (calls' # calls /\ calls = <<>>) =>
           /\ pc' = "xpath"
           /\ xpath_index' = 1
           /\ xml_path' = xml_path
           /\ tmpdir' = tmpdir
           /\ files'[TimeProfilePath] = files[TimeProfilePath]
           /\ files'[AllDataPath] = files[AllDataPath]
    /\ (calls' # calls /\ calls # <<>>) =>
           /\ files'[TocPath] = files[TocPath]
           /\ stderr' # stderr => pc' = "no_export"
           /\ Len(calls) \in 1..3 =>
                  xml_path' = (IF result' = <<0>> /\ files'[TimeProfilePath].exists
                                  /\ files'[TimeProfilePath].size > 100
                               THEN TimeProfilePath ELSE None)
           /\ Len(calls) = 4 =>
                  xml_path' = (IF result' = <<0>> /\ files'[AllDataPath].exists
                               THEN AllDataPath ELSE None)
    /\ xml_path' # TocPath

C17_TocHasNoEffect == [][C17_Step]_vars

\* the table of contents failed and wrote nothing, and the first query was
\* accepted all the same
C17_Witness ==
    /\ pc = "parse"
    /\ xml_path = TimeProfilePath
    /\ Len(calls) = 2
    /\ ~files[TocPath].exists
    /\ Len(stderr) = 1

\* the names probed for a duration, in the order of the claim
ProbeOrder == <<"duration", "weight", "self-weight", "total-weight", "sample-count">>

\* the positions in ProbeOrder of the attributes of the row that hold a number
NumericAt(row) == {i \in 1..5 : row.attrib[ProbeOrder[i]].k = "num"}

\* the value of the first attribute of the row, in ProbeOrder, that holds a number
FirstNumeric(row) ==
    row.attrib[ProbeOrder[CHOOSE i \in NumericAt(row) : \A j \in NumericAt(row) : i <= j]].v

\* the row has a numeric duration attribute and the first one is above 0
KeptByFirst(row) == NumericAt(row) # {} /\ FirstNumeric(row) > 0

\* C18: the retained durations are, in document order, the normalized values of
\* the first numeric attribute (in the order duration, weight, self-weight,
\* total-weight, sample-count) of the nodes where that value is above 0: a node
\* whose first numeric value is <= 0 is discarded whatever its later attributes
\* hold.
C18_FirstNumericWins ==
    (report # <<>> /\ content # <<>> /\ content[1].wellformed) =>
        LET kept == SelectSeq(content[1].nodes, KeptByFirst)
        IN  /\ Len(all_durations) = Len(kept)
            /\ \A i \in 1..Len(kept) : all_durations[i] = Normalize(FirstNumeric(kept[i]))

\* a node with duration="0" and a positive weight was discarded
C18_Witness ==
    /\ report # <<>>
    /\ content # <<>>
    /\ content[1].wellformed
    /\ Len(content[1].nodes) = 1
    /\ LET row == content[1].nodes[1]
       IN  /\ row.attrib["duration"] = [k |-> "num", v |-> 0, s |-> ""]
           /\ row.attrib["weight"].k = "num"
           /\ row.attrib["weight"].v > 0
           /\ all_durations = <<>>

\* C19: every retained duration is above 0, in all_durations and in the hang and
\* stutter sequences, and a document whose only node has a first numeric value
\* <= 0 has no sample, hang or stutter whatever the thresholds.
C19_RetainedPositive ==
    report # <<>> =>
        /\ \A i \in 1..Len(all_durations) :
               all_durations[i].ms > 0 \/ (all_durations[i].ms = 0 /\ all_durations[i].frac > 0)
        /\ \A i \in 1..Len(hangs) :
               hangs[i].duration_ms.ms > 0
               \/ (hangs[i].duration_ms.ms = 0 /\ hangs[i].duration_ms.frac > 0)
        /\ \A i \in 1..Len(stutters) :
               stutters[i].duration_ms.ms > 0
               \/ (stutters[i].duration_ms.ms = 0 /\ stutters[i].duration_ms.frac > 0)
        /\ (content # <<>> /\ content[1].wellformed /\ Len(content[1].nodes) = 1
            /\ NumericAt(content[1].nodes[1]) # {}
            /\ FirstNumeric(content[1].nodes[1]) <= 0) =>
               /\ all_durations = <<>>
               /\ hangs = <<>>
               /\ stutters = <<>>
               /\ report[1].total_samples = 0
               /\ report[1].hang_count = 0
               /\ report[1].stutter_count = 0

\* a node whose value is negative was discarded although the hang threshold is
\* below 0
C19_Witness ==
    /\ report # <<>>
    /\ args.hang_threshold <= 0
    /\ content # <<>>
    /\ content[1].wellformed
    /\ Len(content[1].nodes) = 1
    /\ NumericAt(content[1].nodes[1]) # {}
    /\ FirstNumeric(content[1].nodes[1]) < 0
    /\ report[1].total_samples = 0

\* C20: the function of every hang and stutter sample is not the empty string.
C20_FunctionNeverEmpty ==
    /\ \A i \in 1..Len(hangs) : hangs[i].function # ""
    /\ \A i \in 1..Len(stutters) : stutters[i].function # ""

\* C21: with a hang threshold of 0 or below every retained sample is a hang:
\* no stutter, hang_count = total_samples, passed false exactly when a sample
\* was retained; and the report carries the thresholds as they were given.
C21_NonPositiveHangThreshold ==
    report # <<>> =>
        LET r == report[1]
        IN  /\ r.hang_threshold_ms = args.hang_threshold
            /\ r.stutter_threshold_ms = args.stutter_threshold
            /\ args.hang_threshold <= 0 =>
                   /\ r.stutter_count = 0
                   /\ r.top_stutters = <<>>
                   /\ r.hang_count = r.total_samples
                   /\ r.hang_count = Len(all_durations)
                   /\ r.passed <=> r.total_samples = 0

\* a sample below the stutter threshold counted as a hang under a negative
\* hang threshold
C21_Witness ==
    /\ report # <<>>
    /\ args.hang_threshold < 0
    /\ Len(all_durations) = 1
    /\ all_durations[1].ms < args.stutter_threshold
    /\ report[1].hang_count = 1
    /\ ~report[1].passed

\* C22: with stutter_threshold >= hang_threshold there is no stutter:
\* stutter_count = 0, total_stutter_duration_ms = 0, top_stutters empty, and
\* every retained sample at or above hang_threshold is counted as a hang.
C22_NoStutterBucket ==
    (report # <<>> /\ args.stutter_threshold >= args.hang_threshold) =>
        LET r == report[1]
            AtOrAbove(d) == d.ms >= args.hang_threshold
        IN  /\ stutters = <<>>
            /\ r.stutter_count = 0
            /\ r.total_stutter_duration_ms = [ms |-> 0, frac |-> 0]
            /\ r.top_stutters = <<>>
            /\ r.hang_count = Len(SelectSeq(all_durations, AtOrAbove))

\* a sample above a stutter threshold that is above the hang threshold is a hang
C22_Witness ==
    /\ report # <<>>
    /\ args.stutter_threshold > args.hang_threshold
    /\ args.hang_threshold > 0
    /\ Len(all_durations) >= 1
    /\ all_durations[1].ms >= args.stutter_threshold
    /\ report[1].hang_count >= 1
    /\ report[1].stutter_count = 0

\* C23: when the handle is the time-profile path, the file there was written
\* by the invocation that was accepted, the last one made, which returned 0.
C23_FreshExport ==
    (pc = "parse" /\ xml_path = TimeProfilePath) =>
        /\ result = <<0>>
        /\ files[TimeProfilePath].exists
        /\ files[TimeProfilePath].writer = Len(calls)

\* C24: for 1 <= n <= 20 samples the index int(0.95 n) is n - 1 and the 95th
\* percentile is the maximum; for every n >= 1 the index is at most n - 1, so
\* the percentile is the element at that index of the ascending order without
\* any clamping.
C24_P95IsMaxUpTo20 ==
    (report # <<>> /\ Len(all_durations) >= 1) =>
        LET n == Len(all_durations)
            r == report[1]
        IN  /\ n <= 20 => P95Index(n) = n - 1
            /\ n <= 20 => r.p95_duration_ms = r.max_duration_ms
            /\ P95Index(n) <= n - 1
            /\ AtSortedIndex(all_durations, P95Index(n), r.p95_duration_ms)

\* twenty samples of 20, 40, ..., 400 ms: the percentile is the largest
C24_Witness ==
    /\ report # <<>>
    /\ Len(all_durations) = 20
    /\ \E i \in 1..20 : all_durations[i] = [ms |-> 20, frac |-> 0]
    /\ report[1].p95_duration_ms = [ms |-> 400, frac |-> 0]
    /\ report[1].max_duration_ms = [ms |-> 400, frac |-> 0]

====
